---- MODULE Spec2Model ----
(***************************************************************************)
(* A model of kilo.c: the raw-mode terminal session, the key decoder       *)
(* (editorReadKey), the cursor motion (editorMoveCursor /                  *)
(* editorProcessKeypress), the frame builder (editorRefreshScreen) and the *)
(* exit paths (die, exit + atexit).                                        *)
(*                                                                         *)
(* Bytes are integers (their ASCII codes); a frame is a sequence of bytes. *)
(* The terminal and the C library are the environment: every read(),       *)
(* ioctl() and realloc() outcome the code tests for is drawn with \E.      *)
(***************************************************************************)
EXTENDS Integers, Sequences, FiniteSets

(***************************************************************************)
(* Bounds of the model.                                                    *)
(***************************************************************************)
\* number of input bytes the terminal delivers during one run
MaxInput == 6
\* number of realloc() failures within one editorRefreshScreen call
MaxAllocFail == 1

(***************************************************************************)
(* Characters the code names.                                              *)
(***************************************************************************)
ESC == 27
CH_LBRACKET == 91
CH_O == 79
CH_TILDE == 126
CH_0 == 48
CH_9 == 57
CH_A == 65
CH_B == 66
CH_C == 67
CH_D == 68
CH_F == 70
CH_H == 72
CH_R == 82
CH_SEMI == 59
CH_q == 113
CH_SPACE == 32
CH_MINUS == 45
CH_PLUS == 43
\* a letter and a byte above 0x7F the decoder has no case for
CH_Z == CH_A + 25
CH_HIGH == CH_TILDE + 107

\* enum editorKey
ARROW_LEFT == 1000
ARROW_RIGHT == 1001
ARROW_UP == 1002
ARROW_DOWN == 1003
DEL_KEY == 1004
HOME_KEY == 1005
END_KEY == 1006
PAGE_UP == 1007
PAGE_DOWN == 1008

\* #define CTRL_KEY(k) ((k) & 0x1f)
CTRL_KEY(k) == k % 32

\* errno after a failed read: the one the code exempts, and a device error
\* (the program installs no signal handler, so no read ends with EINTR)
EAGAIN == "EAGAIN"
EIO == "EIO"
NoErrno == "none"

\* the bytes the terminal can deliver in this model
Digits == CH_0 .. CH_9
InputBytes ==
  {ESC, CH_LBRACKET, CH_O, CH_TILDE, CH_A, CH_B, CH_C, CH_D, CH_F, CH_H,
   CH_Z, CH_HIGH, CTRL_KEY(CH_q)}
    \cup {CH_0 + d : d \in {1, 3, 4, 5, 6, 7, 8, 9}}

(***************************************************************************)
(* struct termios: the flags enableRawMode touches.                        *)
(***************************************************************************)
\* static storage: E.orig_termios before tcgetattr fills it
ZeroTermios ==
  [brkint |-> FALSE, icrnl |-> FALSE, inpck |-> FALSE, istrip |-> FALSE,
   ixon |-> FALSE, opost |-> FALSE, cs8 |-> FALSE, echo |-> FALSE,
   icanon |-> FALSE, iexten |-> FALSE, isig |-> FALSE, vmin |-> 0, vtime |-> 0]

\* the attributes a shell usually leaves on its terminal
CookedTermios ==
  [brkint |-> TRUE, icrnl |-> TRUE, inpck |-> FALSE, istrip |-> FALSE,
   ixon |-> TRUE, opost |-> TRUE, cs8 |-> TRUE, echo |-> TRUE,
   icanon |-> TRUE, iexten |-> TRUE, isig |-> TRUE, vmin |-> 1, vtime |-> 0]

\* a 7-bit line with parity and no echo
SevenBitTermios ==
  [CookedTermios EXCEPT !.inpck = TRUE, !.istrip = TRUE, !.cs8 = FALSE,
                        !.echo = FALSE]

StartTermios == {CookedTermios, SevenBitTermios}

\* enableRawMode, lines 51-59: raw = E.orig_termios with the flags changed
RawOf(t) ==
  [t EXCEPT !.brkint = FALSE, !.icrnl = FALSE, !.inpck = FALSE,
            !.istrip = FALSE, !.ixon = FALSE,
            !.opost = FALSE,
            !.cs8 = TRUE,
            !.echo = FALSE, !.icanon = FALSE, !.iexten = FALSE,
            !.isig = FALSE,
            !.vmin = 0, !.vtime = 1]

\* tcsetattr(STDIN_FILENO, TCSAFLUSH, &t): takes effect iff stdin is a terminal
tcsetattr(isTty, cur, t) == IF isTty THEN t ELSE cur

\* tcgetattr(STDIN_FILENO, &dst): fills dst iff stdin is a terminal
tcgetattr(isTty, cur, dst) == IF isTty THEN cur ELSE dst

(***************************************************************************)
(* char: read() stores a byte 0..255 into a char object; its value as an   *)
(* int depends on whether the build's char is signed.                      *)
(***************************************************************************)
\* a variant that strips the eighth bit instead
CharOfStripped(signed, b) == b % 128

CharOf(signed, b) == IF signed /\ b >= 128 THEN b - 256 ELSE b

(***************************************************************************)
(* Byte strings the code writes.                                           *)
(***************************************************************************)
\* "\x1b[2J"
ClearScreen == <<27, 91, 50, 74>>
\* "\x1b[H"
CursorHome == <<27, 91, 72>>
\* "\x1b[?25l"
HideCursor == <<27, 91, 63, 50, 53, 108>>
\* "\x1b[?25h"
ShowCursor == <<27, 91, 63, 50, 53, 104>>
\* "\x1b[K"
ClearLine == <<27, 91, 75>>
\* "\r\n"
CRLF == <<13, 10>>
\* "~"
Tilde == <<126>>
\* " "
Space == <<32>>
\* "\x1b[6n"
CursorRequest == <<27, 91, 54, 110>>
\* "\x1b[999C\x1b[999B"
BottomRightProbe == <<27, 91, 57, 57, 57, 67, 27, 91, 57, 57, 57, 66>>
\* "0.0.1"
KILO_VERSION == <<48, 46, 48, 46, 49>>
\* "Kilo editor -- version " of the snprintf format
WelcomeFmt ==
  <<75, 105, 108, 111, 32, 101, 100, 105, 116, 111, 114, 32, 45, 45, 32,
    118, 101, 114, 115, 105, 111, 110, 32>>
\* sizeof(welcome)
WelcomeSize == 80
\* sizeof(buf) in getCursorPosition
ReportBufSize == 32
\* sizeof(buf) in editorRefreshScreen
PositionBufSize == 32

\* C integer division truncates toward zero
CDiv(a, b) ==
  IF (a >= 0) = (b > 0) THEN (IF a >= 0 THEN a ELSE -a) \div (IF b > 0 THEN b ELSE -b)
  ELSE -((IF a >= 0 THEN a ELSE -a) \div (IF b > 0 THEN b ELSE -b))

\* printf's %d
RECURSIVE NatToStr(_)
NatToStr(n) ==
  IF n < 10 THEN <<CH_0 + n>> ELSE NatToStr(n \div 10) \o <<CH_0 + (n % 10)>>
IntToStr(n) == IF n < 0 THEN <<CH_MINUS>> \o NatToStr(-n) ELSE NatToStr(n)

\* snprintf(dst, size, ...): at most size-1 bytes are stored; the return value
\* is the length of the untruncated text
Snprintf(size, text) ==
  [stored |-> SubSeq(text, 1, IF Len(text) > size - 1 THEN size - 1 ELSE Len(text)),
   ret |-> Len(text)]

RECURSIVE Repeat(_, _)
Repeat(piece, n) == IF n <= 0 THEN <<>> ELSE <<piece>> \o Repeat(piece, n - 1)

(***************************************************************************)
(* Append buffer.  A frame is built by a list of abAppend calls; each call *)
(* either appends its bytes or, when realloc fails, leaves ab unchanged.   *)
(***************************************************************************)
abAppend(ab, s, allocOk) == IF allocOk THEN ab \o s ELSE ab

\* the abAppend calls of one row y of editorDrawRows, in order
DrawRowCalls(y, screenrows, screencols) ==
  LET fmt == Snprintf(WelcomeSize, WelcomeFmt \o KILO_VERSION)
      welcomelen == IF fmt.ret > screencols THEN screencols ELSE fmt.ret
      padding == CDiv(screencols - welcomelen, 2)
      content ==
        IF y = CDiv(screenrows, 3)
        THEN (IF padding # 0 THEN <<Tilde>> \o Repeat(Space, padding - 1) ELSE <<>>)
             \o <<SubSeq(fmt.stored, 1, welcomelen)>>
        ELSE <<Tilde>>
  IN  content \o <<ClearLine>>
      \o (IF y < screenrows - 1 THEN <<CRLF>> ELSE <<>>)

\* editorDrawRows: the abAppend calls of rows y .. screenrows-1
RECURSIVE editorDrawRows(_, _, _)
editorDrawRows(y, screenrows, screencols) ==
  IF y < screenrows
  THEN DrawRowCalls(y, screenrows, screencols)
       \o editorDrawRows(y + 1, screenrows, screencols)
  ELSE <<>>

\* the cursor-position code of editorRefreshScreen
PositionCode(cy, cx) ==
  Snprintf(PositionBufSize,
           <<ESC, CH_LBRACKET>> \o IntToStr(cy + 1) \o <<CH_SEMI>>
             \o IntToStr(cx + 1) \o <<CH_H>>).stored

\* editorRefreshScreen: its abAppend calls, in order
RefreshCalls(e) ==
  <<HideCursor, CursorHome>>
    \o editorDrawRows(0, e.screenrows, e.screencols)
    \o <<PositionCode(e.cy, e.cx), ShowCursor>>

\* ab after the calls i..Len(calls), those whose index is in failed hitting a
\* realloc failure
RECURSIVE AppendAll(_, _, _, _)
AppendAll(ab, calls, i, failed) ==
  IF i > Len(calls) THEN ab
  ELSE AppendAll(abAppend(ab, calls[i], i \notin failed), calls, i + 1, failed)

\* the sets of at most k failing calls among n
RECURSIVE FailSetsUpTo(_, _)
FailSetsUpTo(k, n) ==
  IF k = 0 THEN {{}}
  ELSE LET smaller == FailSetsUpTo(k - 1, n)
       IN  smaller \cup {S \cup {i} : S \in smaller, i \in 1 .. n}

FailSets(n) == FailSetsUpTo(MaxAllocFail, n)

(***************************************************************************)
(* getCursorPosition: the read loop and the sscanf("%d;%d") parse.         *)
(***************************************************************************)
\* the loop of lines 117-121 over the bytes the terminal delivers (a read
\* after the last of them times out): the final value of i
RECURSIVE ReportLoop(_, _)
ReportLoop(reply, i) ==
  IF ~(i < ReportBufSize - 1) THEN i
  ELSE IF i >= Len(reply) THEN i
  ELSE IF reply[i + 1] = CH_R THEN i
  ELSE ReportLoop(reply, i + 1)

\* the number of bytes the loop took from the input
ReportConsumed(reply) ==
  LET i == ReportLoop(reply, 0)
  IN  IF i < ReportBufSize - 1 /\ i < Len(reply) THEN i + 1 ELSE i

\* digits of s from position p on
RECURSIVE ScanDigits(_, _, _, _)
ScanDigits(s, p, acc, n) ==
  IF p <= Len(s) /\ s[p] \in Digits
  THEN ScanDigits(s, p + 1, 10 * acc + (s[p] - CH_0), n + 1)
  ELSE [val |-> acc, next |-> p, n |-> n]

RECURSIVE SkipSpace(_, _)
SkipSpace(s, p) ==
  IF p <= Len(s) /\ s[p] = CH_SPACE THEN SkipSpace(s, p + 1) ELSE p

\* one %d conversion at position p of s
ScanInt(s, p) ==
  LET q == SkipSpace(s, p)
      neg == q <= Len(s) /\ s[q] = CH_MINUS
      signed == q <= Len(s) /\ s[q] \in {CH_MINUS, CH_PLUS}
      d == ScanDigits(s, IF signed THEN q + 1 ELSE q, 0, 0)
  IN  [ok |-> d.n > 0, val |-> IF neg THEN -d.val ELSE d.val, next |-> d.next]

\* sscanf(s, "%d;%d", rows, cols): the number of conversions stored
Sscanf2(s) ==
  LET a == ScanInt(s, 1)
      semi == a.ok /\ a.next <= Len(s) /\ s[a.next] = CH_SEMI
      b == ScanInt(s, a.next + 1)
  IN  [n |-> IF ~a.ok THEN 0 ELSE IF semi /\ b.ok THEN 2 ELSE 1,
       rows |-> a.val, cols |-> b.val]

\* a variant that stores the two numbers the other way round
getCursorPositionSwapped(reply) ==
  LET i == ReportLoop(reply, 0)
      buf == SubSeq(reply, 1, i)
      head == i >= 2 /\ buf[1] = ESC /\ buf[2] = CH_LBRACKET
      sc == Sscanf2(SubSeq(buf, 3, i))
  IN  IF ~head THEN [ret |-> -1, stored |-> 0, rows |-> 0, cols |-> 0]
      ELSE IF sc.n # 2
           THEN [ret |-> -1, stored |-> sc.n, rows |-> sc.rows, cols |-> 0]
           ELSE [ret |-> 0, stored |-> 2, rows |-> sc.cols, cols |-> sc.rows]

\* getCursorPosition on the bytes the terminal delivers: the return value and
\* what was stored through rows and cols
getCursorPosition(reply) ==
  LET i == ReportLoop(reply, 0)
      buf == SubSeq(reply, 1, i)
      head == i >= 2 /\ buf[1] = ESC /\ buf[2] = CH_LBRACKET
      sc == Sscanf2(SubSeq(buf, 3, i))
  IN  IF ~head THEN [ret |-> -1, stored |-> 0, rows |-> 0, cols |-> 0]
      ELSE IF sc.n # 2
           THEN [ret |-> -1, stored |-> sc.n, rows |-> sc.rows, cols |-> 0]
           ELSE [ret |-> 0, stored |-> 2, rows |-> sc.rows, cols |-> sc.cols]

\* a cursor-position report
Report(r, c) ==
  <<ESC, CH_LBRACKET>> \o IntToStr(r) \o <<CH_SEMI>> \o IntToStr(c)

(***************************************************************************)
(* Environment outcomes.                                                   *)
(***************************************************************************)
\* read(STDIN_FILENO, &ch, 1): one byte, nothing within the timeout, or -1
ReadOutcomes ==
  {[n |-> 1, byte |-> b, errno |-> NoErrno] : b \in InputBytes}
    \cup {[n |-> 0, byte |-> 0, errno |-> NoErrno]}
    \cup {[n |-> -1, byte |-> 0, errno |-> e] : e \in {EAGAIN, EIO}}

NoRead == [n |-> 0, byte |-> 0, errno |-> NoErrno]

\* ioctl(STDOUT_FILENO, TIOCGWINSZ, &ws): failure, or a window size
IoctlOutcomes ==
  {[ret |-> -1, ws_row |-> 0, ws_col |-> 0]}
    \cup {[ret |-> 0, ws_row |-> w[1], ws_col |-> w[2]] :
            w \in {<<2, 3>>, <<1, 1>>, <<3, 32>>, <<0, 3>>, <<2, 0>>}}

\* what the terminal sends after the cursor-position request: complete
\* reports, a report cut before its R, one whose R comes after more bytes
\* than the buffer holds, a report cut after the semicolon, no report
Replies ==
  {Report(2, 3) \o <<CH_R>>, Report(3, 32) \o <<CH_R>>, Report(2, 3),
   Report(2, 3) \o <<CH_Z>> \o [i \in 1 .. ReportBufSize |-> CH_SPACE] \o <<CH_R>>,
   <<ESC, CH_LBRACKET, CH_0 + 2, CH_SEMI>>, <<CH_Z>>, <<>>}

\* write(STDOUT_FILENO, buf, len): len, or -1
WriteOutcomes(len) == {len, -1}

(***************************************************************************)
(* State.                                                                  *)
(***************************************************************************)
VARIABLES
  pc,          \* where the program is
  tty,         \* stdin is a terminal
  charSigned,  \* the build's char is signed
  attr0,       \* the terminal's attributes before the program started
  termios,     \* the terminal's attributes now
  E,           \* struct editorConfig E
  atexitFns,   \* the functions registered with atexit, oldest first
  c,           \* editorReadKey: <<c>> once the first byte is read
  seq,         \* editorReadKey: the bytes stored in seq[] so far
  key,         \* <<k>> once editorReadKey has returned k
  rd,          \* the outcome of the most recent read()
  nin,         \* input bytes delivered so far
  written,     \* the write() calls of the operation that just ran
  errMsg,      \* what perror has put on the error stream
  exitArg,     \* <<status>> once exit(status) has been called
  restored,    \* disableRawMode has run
  ws,          \* getWindowSize: <<the ioctl outcome>> until the first refresh
  report,      \* getCursorPosition: <<the bytes the terminal sent>>, likewise
  wret         \* <<what write() returned>> to the editorRefreshScreen just run

vars ==
  <<pc, tty, charSigned, attr0, termios, E, atexitFns, c, seq, key, rd, nin,
    written, errMsg, exitArg, restored, ws, report, wret>>

env == <<tty, charSigned, attr0>>
locals == <<c, seq, key>>
sizing == <<ws, report>>

Init ==
  /\ pc = "main"
  /\ tty \in BOOLEAN
  /\ charSigned \in BOOLEAN
  /\ attr0 \in IF tty THEN StartTermios ELSE {CookedTermios}
  /\ termios = attr0
  /\ E = [cx |-> 0, cy |-> 0, screenrows |-> 0, screencols |-> 0,
          orig_termios |-> ZeroTermios]
  /\ atexitFns = <<>>
  /\ c = <<>>
  /\ seq = <<>>
  /\ key = <<>>
  /\ rd = NoRead
  /\ nin = 0
  /\ written = <<>>
  /\ errMsg = <<>>
  /\ exitArg = <<>>
  /\ restored = FALSE
  /\ ws = <<>>
  /\ report = <<>>
  /\ wret = <<>>

(***************************************************************************)
(* main: what runs after each of its calls returns.                        *)
(***************************************************************************)
\* a variant whose loop reads the next key without redrawing
MainLoopNoRedraw(returned) ==
  CASE returned = "enableRawMode" -> "initEditor"
    [] returned = "initEditor" -> "refresh"
    [] returned = "editorRefreshScreen" -> "readKey"
    [] returned = "editorProcessKeypress" -> "readKey"

\* lines 281-287
MainAfter(returned) ==
  CASE returned = "enableRawMode" -> "initEditor"
    [] returned = "initEditor" -> "refresh"
    [] returned = "editorRefreshScreen" -> "readKey"
    [] returned = "editorProcessKeypress" -> "refresh"

(***************************************************************************)
(* Terminal session.                                                       *)
(***************************************************************************)
\* enableRawMode, called first by main
enableRawMode ==
  /\ pc = "main"
  /\ LET orig == tcgetattr(tty, termios, E.orig_termios)
     IN  /\ E' = [E EXCEPT !.orig_termios = orig]
         /\ atexitFns' = Append(atexitFns, "disableRawMode")
         /\ termios' = tcsetattr(tty, termios, RawOf(orig))
  /\ pc' = MainAfter("enableRawMode")
  /\ UNCHANGED <<env, locals, rd, nin, written, errMsg, exitArg, restored,
                 sizing, wret>>

\* a variant that leaves the terminal as it is
disableRawModeSkipped(isTty, cur, e) == cur

\* disableRawMode: the attributes of the terminal afterwards
disableRawMode(isTty, cur, e) == tcsetattr(isTty, cur, e.orig_termios)

\* the terminal after exit() has run the registered functions, newest first
RECURSIVE RunAtexit(_, _, _, _)
RunAtexit(fns, isTty, cur, e) ==
  IF fns = <<>> THEN cur
  ELSE RunAtexit(SubSeq(fns, 1, Len(fns) - 1), isTty,
                 disableRawMode(isTty, cur, e), e)

\* die(s): clear the screen, report the cause, call exit(1)
die ==
  /\ pc \in {"die_read", "die_getWindowSize"}
  /\ written' = <<ClearScreen, CursorHome>>
  /\ errMsg' = Append(errMsg, IF pc = "die_read" THEN "read" ELSE "getWindowSize")
  /\ exitArg' = <<1>>
  /\ pc' = "exit"
  /\ UNCHANGED <<env, termios, E, atexitFns, locals, rd, nin, restored,
                 sizing, wret>>

\* exit(status): the atexit functions run
exitHandlers ==
  /\ pc = "exit"
  /\ termios' = RunAtexit(atexitFns, tty, termios, E)
  /\ restored' = (restored \/ atexitFns # <<>>)
  /\ pc' = "terminate"
  /\ UNCHANGED <<env, E, atexitFns, locals, rd, nin, written, errMsg, exitArg,
                 sizing, wret>>

\* exit(status): the process ends with that status
terminate ==
  /\ pc = "terminate"
  /\ pc' = "exited"
  /\ UNCHANGED <<env, termios, E, atexitFns, locals, rd, nin, written, errMsg,
                 exitArg, restored, sizing, wret>>

(***************************************************************************)
(* Window size.                                                            *)
(***************************************************************************)
\* initEditor up to the end of getWindowSize's direct query
getWindowSize ==
  /\ pc = "initEditor"
  /\ \E r \in IoctlOutcomes :
       /\ ws' = <<r>>
       /\ IF r.ret = -1 \/ r.ws_col = 0
          THEN /\ written' = <<BottomRightProbe>>
               /\ E' = [E EXCEPT !.cx = 0, !.cy = 0]
               /\ pc' = "getCursorPosition"
          ELSE /\ written' = <<>>
               /\ E' = [E EXCEPT !.cx = 0, !.cy = 0,
                                 !.screencols = r.ws_col, !.screenrows = r.ws_row]
               /\ pc' = MainAfter("initEditor")
  /\ UNCHANGED <<env, termios, atexitFns, locals, rd, nin, errMsg, exitArg,
                 restored, report, wret>>

\* the fallback of getWindowSize and initEditor's test of its result
cursorProbe ==
  /\ pc = "getCursorPosition"
  /\ \E reply \in Replies :
       LET res == getCursorPosition(reply)
       IN  /\ report' = <<reply>>
           /\ E' = [E EXCEPT
                      !.screenrows = IF res.stored >= 1 THEN res.rows ELSE @,
                      !.screencols = IF res.stored >= 2 THEN res.cols ELSE @]
           /\ pc' = IF res.ret = -1 THEN "die_getWindowSize"
                    ELSE MainAfter("initEditor")
  /\ written' = Append(written, CursorRequest)
  /\ UNCHANGED <<env, termios, atexitFns, locals, rd, nin, errMsg, exitArg,
                 restored, ws, wret>>

(***************************************************************************)
(* Key decoder: editorReadKey.                                             *)
(***************************************************************************)
\* lines 74-105 once seq[0] and seq[1] are read: <<>> when seq[2] is to be
\* read next, <<k>> when the function returns k
AfterSeq1(s0, s1) ==
  IF s0 = CH_LBRACKET
  THEN IF s1 >= CH_0 /\ s1 <= CH_9
       THEN <<>>
       ELSE IF s0 = CH_O
            THEN CASE s1 = CH_H -> <<HOME_KEY>>
                   [] s1 = CH_F -> <<END_KEY>>
                   [] OTHER -> <<ESC>>
            ELSE CASE s1 = CH_A -> <<ARROW_UP>>
                   [] s1 = CH_B -> <<ARROW_DOWN>>
                   [] s1 = CH_C -> <<ARROW_RIGHT>>
                   [] s1 = CH_D -> <<ARROW_LEFT>>
                   [] s1 = CH_H -> <<HOME_KEY>>
                   [] s1 = CH_F -> <<END_KEY>>
                   [] OTHER -> <<ESC>>
  ELSE <<ESC>>

\* a variant with the cases '5' and '6' exchanged and '1' taken for End
AfterSeq2Swapped(s1, s2) ==
  IF s2 = CH_TILDE
  THEN CASE s1 = CH_0 + 1 -> END_KEY
         [] s1 = CH_0 + 4 -> END_KEY
         [] s1 = CH_0 + 3 -> DEL_KEY
         [] s1 = CH_0 + 5 -> PAGE_DOWN
         [] s1 = CH_0 + 6 -> PAGE_UP
         [] s1 = CH_0 + 7 -> HOME_KEY
         [] s1 = CH_0 + 8 -> END_KEY
         [] OTHER -> ESC
  ELSE ESC

\* lines 77-88 and 105 once seq[2] is read: the value returned
AfterSeq2(s1, s2) ==
  IF s2 = CH_TILDE
  THEN CASE s1 = CH_0 + 1 -> HOME_KEY
         [] s1 = CH_0 + 4 -> END_KEY
         [] s1 = CH_0 + 3 -> DEL_KEY
         [] s1 = CH_0 + 5 -> PAGE_UP
         [] s1 = CH_0 + 6 -> PAGE_DOWN
         [] s1 = CH_0 + 7 -> HOME_KEY
         [] s1 = CH_0 + 8 -> END_KEY
         [] OTHER -> ESC
  ELSE ESC

\* a variant that reads again, as the loop for the first byte does
SeqReadRetried(at) == [pc |-> at, key |-> <<>>]

\* the `return '\x1b'` of lines 72, 73 and 76, taken when the read at decoder
\* position `at` delivers no byte: where the program goes, what is returned
SeqReadFailed(at) == [pc |-> "process", key |-> <<ESC>>]

\* a read may deliver a byte only while the input lasts
CanRead(r) == r.n = 1 => nin < MaxInput

\* the loop of lines 67-69 and the test of line 70
readFirst ==
  /\ pc = "readKey"
  /\ \E r \in ReadOutcomes :
       /\ CanRead(r)
       /\ rd' = r
       /\ IF r.n # 1
          THEN /\ pc' = IF r.n = -1 /\ r.errno # EAGAIN THEN "die_read" ELSE "readKey"
               /\ UNCHANGED <<locals, nin>>
          ELSE LET ch == CharOf(charSigned, r.byte)
               IN  /\ c' = <<ch>>
                   /\ nin' = nin + 1
                   /\ IF ch = ESC
                      THEN /\ pc' = "readSeq0"
                           /\ UNCHANGED <<seq, key>>
                      ELSE /\ pc' = "process"
                           /\ key' = <<ch>>
                           /\ seq' = seq
  /\ written' = <<>>
  /\ wret' = <<>>
  /\ UNCHANGED <<env, termios, E, atexitFns, errMsg, exitArg, restored, sizing>>

\* line 72
readSeq0 ==
  /\ pc = "readSeq0"
  /\ \E r \in ReadOutcomes :
       /\ CanRead(r)
       /\ rd' = r
       /\ IF r.n # 1
          THEN /\ key' = SeqReadFailed(pc).key
               /\ pc' = SeqReadFailed(pc).pc
               /\ UNCHANGED <<c, seq, nin>>
          ELSE /\ seq' = <<CharOf(charSigned, r.byte)>>
               /\ nin' = nin + 1
               /\ pc' = "readSeq1"
               /\ UNCHANGED <<c, key>>
  /\ UNCHANGED <<env, termios, E, atexitFns, written, errMsg, exitArg, restored,
                 sizing, wret>>

\* line 73, then lines 74-75 and 89-105
readSeq1 ==
  /\ pc = "readSeq1"
  /\ \E r \in ReadOutcomes :
       /\ CanRead(r)
       /\ rd' = r
       /\ IF r.n # 1
          THEN /\ key' = SeqReadFailed(pc).key
               /\ pc' = SeqReadFailed(pc).pc
               /\ UNCHANGED <<c, seq, nin>>
          ELSE LET ch == CharOf(charSigned, r.byte)
                   res == AfterSeq1(seq[1], ch)
               IN  /\ seq' = Append(seq, ch)
                   /\ nin' = nin + 1
                   /\ key' = res
                   /\ pc' = IF res = <<>> THEN "readSeq2" ELSE "process"
                   /\ c' = c
  /\ UNCHANGED <<env, termios, E, atexitFns, written, errMsg, exitArg, restored,
                 sizing, wret>>

\* line 76, then lines 77-88 and 105
readSeq2 ==
  /\ pc = "readSeq2"
  /\ \E r \in ReadOutcomes :
       /\ CanRead(r)
       /\ rd' = r
       /\ IF r.n # 1
          THEN /\ key' = SeqReadFailed(pc).key
               /\ pc' = SeqReadFailed(pc).pc
               /\ UNCHANGED <<c, seq, nin>>
          ELSE LET ch == CharOf(charSigned, r.byte)
               IN  /\ seq' = Append(seq, ch)
                   /\ nin' = nin + 1
                   /\ key' = <<AfterSeq2(seq[2], ch)>>
                   /\ pc' = "process"
                   /\ c' = c
  /\ UNCHANGED <<env, termios, E, atexitFns, written, errMsg, exitArg, restored,
                 sizing, wret>>

(***************************************************************************)
(* Key handling.                                                           *)
(***************************************************************************)
\* editorMoveCursor(k): E afterwards
editorMoveCursor(e, k) ==
  CASE k = ARROW_LEFT -> IF e.cx # 0 THEN [e EXCEPT !.cx = @ - 1] ELSE e
    [] k = ARROW_RIGHT ->
         IF e.cx # e.screencols - 1 THEN [e EXCEPT !.cx = @ + 1] ELSE e
    [] k = ARROW_UP -> IF e.cy # 0 THEN [e EXCEPT !.cy = @ - 1] ELSE e
    [] k = ARROW_DOWN ->
         IF e.cy # e.screenrows - 1 THEN [e EXCEPT !.cy = @ + 1] ELSE e
    [] OTHER -> e

\* a variant whose paging keys send the cursor to the top or bottom row
KeyEffectPaging(e, k) ==
  CASE k = HOME_KEY -> [e EXCEPT !.cx = 0]
    [] k = END_KEY -> [e EXCEPT !.cx = e.screencols - 1]
    [] k \in {ARROW_UP, ARROW_DOWN, ARROW_LEFT, ARROW_RIGHT} -> editorMoveCursor(e, k)
    [] k = PAGE_UP -> [e EXCEPT !.cy = 0]
    [] k = PAGE_DOWN -> [e EXCEPT !.cy = e.screenrows - 1]
    [] OTHER -> e

\* the switch of editorProcessKeypress on a key other than Ctrl-Q: E afterwards
KeyEffect(e, k) ==
  CASE k = HOME_KEY -> [e EXCEPT !.cx = 0]
    [] k = END_KEY -> [e EXCEPT !.cx = e.screencols - 1]
    [] k \in {ARROW_UP, ARROW_DOWN, ARROW_LEFT, ARROW_RIGHT} -> editorMoveCursor(e, k)
    [] OTHER -> e

\* editorProcessKeypress once editorReadKey has returned
editorProcessKeypress ==
  /\ pc = "process"
  /\ IF key[1] = CTRL_KEY(CH_q)
     THEN /\ written' = <<ClearScreen, CursorHome>>
          /\ exitArg' = <<0>>
          /\ pc' = "exit"
          /\ E' = E
     ELSE /\ E' = KeyEffect(E, key[1])
          /\ pc' = MainAfter("editorProcessKeypress")
          /\ UNCHANGED <<written, exitArg>>
  /\ c' = <<>>
  /\ seq' = <<>>
  /\ key' = <<>>
  /\ rd' = NoRead
  /\ UNCHANGED <<env, termios, atexitFns, nin, errMsg, restored, sizing, wret>>

(***************************************************************************)
(* Screen renderer.                                                        *)
(***************************************************************************)
\* editorRefreshScreen: build the frame, write it once, ignore the result
editorRefreshScreen ==
  /\ pc = "refresh"
  /\ LET calls == RefreshCalls(E)
     IN  \E failed \in FailSets(Len(calls)) :
           LET ab == AppendAll(<<>>, calls, 1, failed)
           IN  /\ written' = <<ab>>
               /\ \E n \in WriteOutcomes(Len(ab)) : wret' = <<n>>
  /\ ws' = <<>>
  /\ report' = <<>>
  /\ pc' = MainAfter("editorRefreshScreen")
  /\ UNCHANGED <<env, termios, E, atexitFns, locals, rd, nin, errMsg, exitArg,
                 restored>>

(***************************************************************************)
(* The program.                                                            *)
(***************************************************************************)
Next ==
  \/ enableRawMode
  \/ getWindowSize
  \/ cursorProbe
  \/ editorRefreshScreen
  \/ readFirst
  \/ readSeq0
  \/ readSeq1
  \/ readSeq2
  \/ editorProcessKeypress
  \/ die
  \/ exitHandlers
  \/ terminate

Spec == Init /\ [][Next]_vars

(***************************************************************************)
(* Properties.                                                             *)
(***************************************************************************)
\* the program has returned from initEditor and not yet called exit
Running == pc \in {"refresh", "readKey", "readSeq0", "readSeq1", "readSeq2", "process"}

\* editorReadKey has just returned, having read ESC first
EscReturned == pc = "process" /\ c = <<ESC>>

\* C1: whenever the process has ended (by Ctrl-Q, by die("read") or by
\* die("getWindowSize")), disableRawMode has run and the terminal has the
\* attributes it had before enableRawMode; the restoration is done by the
\* time exit() lets the process end.
C1_RestoredAtExit ==
  pc \in {"terminate", "exited"} => restored /\ termios = attr0

\* a run on a 7-bit terminal that ended by Ctrl-Q
C1_Witness ==
  /\ pc = "exited"
  /\ tty
  /\ attr0 = SevenBitTermios
  /\ exitArg = <<0>>
  /\ E.orig_termios = SevenBitTermios

\* C2: on a fatal path the terminal mode is restored before the cause is
\* reported: once the message is on the error stream, disableRawMode has
\* run and the terminal has its original attributes.
C2_RestoreBeforeReport ==
  errMsg # <<>> => restored /\ termios = attr0

\* the keys the specification documents for ESC [ X
CsiLetters == {CH_A, CH_B, CH_C, CH_D, CH_H, CH_F}
CsiLetterKey(x) ==
  CASE x = CH_A -> ARROW_UP
    [] x = CH_B -> ARROW_DOWN
    [] x = CH_C -> ARROW_RIGHT
    [] x = CH_D -> ARROW_LEFT
    [] x = CH_H -> HOME_KEY
    [] x = CH_F -> END_KEY

\* the keys the specification documents for ESC [ d ~
CsiDigits == {CH_0 + d : d \in {1, 3, 4, 5, 6, 7, 8}}
CsiDigitKey(d) ==
  CASE d \in {CH_0 + 1, CH_0 + 7} -> HOME_KEY
    [] d = CH_0 + 3 -> DEL_KEY
    [] d \in {CH_0 + 4, CH_0 + 8} -> END_KEY
    [] d = CH_0 + 5 -> PAGE_UP
    [] d = CH_0 + 6 -> PAGE_DOWN

\* C3: when the input delivers ESC [ X with X one of A B C D H F, the
\* decoder returns the documented key having read exactly those 3 bytes;
\* when it delivers ESC [ d with d one of 1 3 4 5 6 7 8 and a further byte,
\* the decoder reads exactly 4 bytes, and returns the documented key if the
\* fourth is ~.
C3_CsiDecoded ==
  (EscReturned /\ rd.n = 1 /\ Len(seq) >= 2 /\ seq[1] = CH_LBRACKET) =>
    /\ seq[2] \in CsiLetters => key = <<CsiLetterKey(seq[2])>> /\ Len(seq) = 2
    /\ seq[2] \in CsiDigits =>
         /\ Len(seq) = 3
         /\ seq[3] = CH_TILDE => key = <<CsiDigitKey(seq[2])>>

\* ESC [ 5 ~ has been decoded as PageUp
C3_Witness ==
  /\ EscReturned
  /\ seq = <<CH_LBRACKET, CH_0 + 5, CH_TILDE>>
  /\ key = <<PAGE_UP>>
  /\ rd.n = 1

\* C4: when the input delivers ESC O X, the decoder has read exactly those
\* 3 bytes and returns Home for X = H, End for X = F and bare Escape for
\* any other X.
C4_Ss3Decoded ==
  (EscReturned /\ rd.n = 1 /\ Len(seq) >= 2 /\ seq[1] = CH_O) =>
    /\ Len(seq) = 2
    /\ key = CASE seq[2] = CH_H -> <<HOME_KEY>>
               [] seq[2] = CH_F -> <<END_KEY>>
               [] OTHER -> <<ESC>>

\* C5 as stated: when the first byte b read is not 0x1B, the decoder
\* returns b itself, having read that one byte only.
C5_ReturnsByte ==
  (pc = "process" /\ c # <<ESC>>) =>
    key = <<rd.byte>> /\ seq = <<>> /\ rd.n = 1

\* C5 as amended: when the first byte b read is not 0x1B, the decoder
\* returns b as a char holds it (b for b < 128 and wherever char is
\* unsigned, b - 256 for b >= 128 where char is signed), having read that
\* one byte only, whatever happened in earlier calls.
C5_ReturnsChar ==
  (pc = "process" /\ c # <<ESC>>) =>
    /\ key = <<IF charSigned /\ rd.byte >= 128 THEN rd.byte - 256 ELSE rd.byte>>
    /\ seq = <<>>
    /\ Len(c) = 1
    /\ rd.n = 1
    /\ rd.byte # ESC

\* the byte 0xE9 has been returned as -23 by a build whose char is signed,
\* after an earlier key moved the cursor
C5_Witness ==
  /\ pc = "process"
  /\ charSigned
  /\ rd.byte = CH_HIGH
  /\ key = <<CH_HIGH - 256>>
  /\ E.cx > 0

\* C6: when the bytes after ESC match no grammar, the decoder returns bare
\* Escape and has read exactly up to the first byte that does not fit:
\* 2 bytes for ESC + a byte other than [ and O, 3 bytes for ESC [ + a byte
\* that is neither a listed letter nor a digit, 4 bytes for ESC [ digit + a
\* fourth byte that does not complete a documented sequence.
C6_MalformedDiscarded ==
  EscReturned =>
    /\ (Len(seq) >= 1 /\ seq[1] \notin {CH_LBRACKET, CH_O}) =>
         key = <<ESC>> /\ Len(seq) = 1
    /\ (Len(seq) >= 2 /\ seq[1] = CH_LBRACKET /\ seq[2] \notin CsiLetters \cup Digits) =>
         key = <<ESC>> /\ Len(seq) = 2
    /\ (Len(seq) >= 3 /\ seq[1] = CH_LBRACKET /\ seq[2] \in Digits
        /\ ~(seq[3] = CH_TILDE /\ seq[2] \in CsiDigits)) =>
         key = <<ESC>> /\ Len(seq) = 3

\* how far the decoder is within one call
Stage(p) ==
  CASE p = "readKey" -> 0
    [] p = "readSeq0" -> 1
    [] p = "readSeq1" -> 2
    [] p = "readSeq2" -> 3
    [] OTHER -> 4

\* C7: after ESC every read moves the decoder forward, so it returns after
\* at most three further reads; a read that delivers no byte makes it
\* return bare Escape at once; a timeout while waiting for the first byte
\* leaves it waiting for the first byte.
C7_EscapeBounded ==
  [][/\ pc \in {"readSeq0", "readSeq1", "readSeq2"} =>
          /\ Stage(pc') > Stage(pc)
          /\ rd'.n # 1 => pc' = "process" /\ key' = <<ESC>>
          /\ Len(seq') <= 3
     /\ (pc = "readKey" /\ rd'.n = 0) => pc' = "readKey" /\ UNCHANGED locals
    ]_vars

\* ESC [ was read and the third byte did not arrive: bare Escape
C7_Witness ==
  /\ EscReturned
  /\ seq = <<CH_LBRACKET>>
  /\ rd.n = 0
  /\ key = <<ESC>>

\* C8: once initEditor has returned, the cursor is inside the viewport.
C8_CursorInViewport ==
  Running =>
    /\ 0 <= E.cx /\ E.cx < E.screencols
    /\ 0 <= E.cy /\ E.cy < E.screenrows

\* s occurs in frame as a contiguous run of bytes
Carries(frame, s) ==
  \E i \in 1 .. Len(frame) - Len(s) + 1 : SubSeq(frame, i, i + Len(s) - 1) = s

\* ESC [ row ; col H for a 0-based cursor
WirePosition(cy, cx) ==
  <<ESC, CH_LBRACKET>> \o IntToStr(cy + 1) \o <<CH_SEMI>> \o IntToStr(cx + 1)
    \o <<CH_H>>

\* C9: an arrow key moves the cursor one cell in its direction unless the
\* cursor is on that edge of the viewport, where it stays; and the frame a
\* refresh writes carries ESC [ cy+1 ; cx+1 H for the cursor of that moment.
C9_ArrowsAndPositionCode ==
  [][/\ (pc = "process" /\ key[1] = ARROW_RIGHT) =>
          E' = [E EXCEPT !.cx = IF @ = E.screencols - 1 THEN @ ELSE @ + 1]
     /\ (pc = "process" /\ key[1] = ARROW_LEFT) =>
          E' = [E EXCEPT !.cx = IF @ = 0 THEN @ ELSE @ - 1]
     /\ (pc = "process" /\ key[1] = ARROW_DOWN) =>
          E' = [E EXCEPT !.cy = IF @ = E.screenrows - 1 THEN @ ELSE @ + 1]
     /\ (pc = "process" /\ key[1] = ARROW_UP) =>
          E' = [E EXCEPT !.cy = IF @ = 0 THEN @ ELSE @ - 1]
     /\ (pc = "refresh" /\ pc' = "readKey") =>
          /\ Len(written') = 1
          /\ Carries(written'[1], WirePosition(E.cy, E.cx))
    ]_vars

\* the frame of a viewport and cursor with every part present
CompleteFrame(e) == AppendAll(<<>>, RefreshCalls(e), 1, {})

\* C10: a refresh performs exactly one write, and what it writes is the
\* complete frame: hide-cursor, home, every row, position code, show-cursor.
C10_OneCompleteFrame ==
  (pc = "readKey" /\ written # <<>>) => written = <<CompleteFrame(E)>>

(***************************************************************************)
(* The main loop, and failures of the terminal calls.                      *)
(***************************************************************************)
\* editorReadKey is waiting for a byte
ReadStates == {"readKey", "readSeq0", "readSeq1", "readSeq2"}

\* the process is ending or has ended
Ending == pc \in {"exit", "terminate", "exited"}

\* C11: after initialisation the loop alternates refresh and key handling,
\* refresh first: initialisation is followed by a refresh, a refresh writes one
\* frame and is followed by the wait for a key, the wait for a key writes no
\* frame and ends in the handling of the key (or a fatal read), the handling
\* of a key is followed by a refresh (or the exit), and input is taken from
\* the terminal only during the wait for a key.
C11_RefreshThenKey ==
  [][/\ pc \in {"initEditor", "getCursorPosition"} =>
          pc' \in {"getCursorPosition", "refresh", "die_getWindowSize"}
     /\ pc = "refresh" => (pc' = "readKey" /\ Len(written') = 1)
     /\ pc \in ReadStates =>
          /\ pc' \in ReadStates \cup {"process", "die_read"}
          /\ written' \in {<<>>, written}
     /\ pc = "process" => pc' \in {"refresh", "exit"}
     /\ nin' # nin => pc \in ReadStates
    ]_vars

\* a second key has been decoded after the first was handled and the frame
\* showing its effect was written
C11_Witness == pc = "process" /\ E.cx = 1 /\ key = <<ARROW_LEFT>>

\* C12: when tcgetattr fails (stdin is not a terminal) the program is ended
\* with status 1 by enableRawMode: it never reaches initEditor or the loop,
\* and the terminal attributes are the ones it started with.
C12_AbortsWithoutTerminal ==
  (~tty /\ pc # "main") => (Ending /\ exitArg = <<1>> /\ termios = attr0)

\* C13: a read of editorReadKey that fails with a device error sends the
\* program to die("read"), which ends it with status 1, whichever byte of a
\* key the read was for; and a read for the first byte that delivers nothing
\* (timeout, or the errno of one) is repeated with the editor state, the
\* decoder's variables and the terminal attributes as they were.
C13_ReadFailures ==
  [][/\ (pc \in ReadStates /\ rd'.n = -1 /\ rd'.errno = EIO) => pc' = "die_read"
     /\ pc = "die_read" => exitArg' = <<1>>
     /\ (pc = "readKey" /\ (rd'.n = 0 \/ (rd'.n = -1 /\ rd'.errno = EAGAIN))) =>
          (pc' = "readKey" /\ UNCHANGED <<E, locals, nin, termios>>)
    ]_vars

\* C14: once the write of a frame has failed the process is ending with
\* status 1: no key is read and no frame is written after it.
C14_WriteFailureFatal ==
  wret = <<-1>> => (Ending /\ exitArg = <<1>>)

(***************************************************************************)
(* The size of the viewport.                                               *)
(***************************************************************************)
\* the direct query leaves the size to the cursor probe
UsesProbe(r) == r.ret = -1 \/ r.ws_col = 0

\* ESC [ rows ; cols R
CompleteReport(nr, nc) == Report(nr, nc) \o <<CH_R>>

\* s begins with t
StartsWith(s, t) == Len(t) <= Len(s) /\ SubSeq(s, 1, Len(t)) = t

\* the sizes a report is compared with
ReportedSizes == 0 .. ReportBufSize

\* the reply carries two numbers after ESC [
HasSizes(reply) == \E nr, nc \in ReportedSizes : StartsWith(reply, Report(nr, nc))

\* C15: a direct query that succeeds with non-zero columns sets the viewport
\* to its rows and columns and nothing is written; otherwise the probe to the
\* bottom right is written, then the cursor-position request, and a report
\* ESC [ rows ; cols R sets the viewport to exactly those rows and columns;
\* when the report carries no sizes either the program ends with status 1.
C15_SizeFallback ==
  /\ (ws # <<>> /\ ~UsesProbe(ws[1])) =>
        /\ pc = "refresh" /\ written = <<>> /\ report = <<>>
        /\ E.screenrows = ws[1].ws_row /\ E.screencols = ws[1].ws_col
  /\ (ws # <<>> /\ UsesProbe(ws[1]) /\ report = <<>>) =>
        (pc = "getCursorPosition" /\ written = <<BottomRightProbe>>)
  /\ report # <<>> =>
        /\ ws # <<>> /\ UsesProbe(ws[1])
        /\ pc \in {"refresh", "die_getWindowSize"} \/ Ending
        /\ pc \in {"refresh", "die_getWindowSize"} =>
             written = <<BottomRightProbe, CursorRequest>>
        /\ \A nr, nc \in ReportedSizes :
             report[1] = CompleteReport(nr, nc) =>
               (pc = "refresh" /\ E.screenrows = nr /\ E.screencols = nc)
        /\ ~HasSizes(report[1]) =>
             /\ pc = "die_getWindowSize" \/ Ending
             /\ Ending => exitArg = <<1>>

\* the report ESC [ 3 ; 32 R has been read after the probe
C15_Witness == pc = "refresh" /\ report = <<CompleteReport(3, 32)>>

\* C18: once initEditor has returned, the viewport has at least one row and
\* at least one column.
C18_ViewportNonDegenerate ==
  (Running \/ (Ending /\ exitArg = <<0>>)) =>
    (E.screenrows >= 1 /\ E.screencols >= 1)

\* C19: getCursorPosition succeeds only on a complete report: the bytes it
\* took are ESC [ rows ; cols R, the R among them.
C19_OnlyCompleteReports ==
  (report # <<>> /\ pc = "refresh") =>
    \E nr, nc \in ReportedSizes :
      /\ StartsWith(report[1], CompleteReport(nr, nc))
      /\ Len(CompleteReport(nr, nc)) <= ReportBufSize - 1

(***************************************************************************)
(* The rows of a frame.                                                    *)
(***************************************************************************)
\* the positions of frame where s occurs
Occurrences(frame, s) ==
  {i \in 1 .. Len(frame) - Len(s) + 1 : SubSeq(frame, i, i + Len(s) - 1) = s}

\* the frame just written
Frame == written[1]

\* a refresh has just written a frame for a viewport of at least one row
\* and one column
FrameWritten ==
  pc = "readKey" /\ written # <<>> /\ E.screenrows >= 1 /\ E.screencols >= 1

\* C16: the frame of a viewport of R >= 1 rows has R clear-to-end-of-line
\* codes, one closing each row, and R-1 CR LF separators, each right after
\* the clear code of a row; the last row's clear code is followed by the
\* cursor-position code, not by a separator.
C16_RowSegments ==
  FrameWritten =>
    /\ Cardinality(Occurrences(Frame, ClearLine)) = E.screenrows
    /\ Cardinality(Occurrences(Frame, CRLF)) = E.screenrows - 1
    /\ \A i \in Occurrences(Frame, CRLF) :
         i - Len(ClearLine) \in Occurrences(Frame, ClearLine)
    /\ Cardinality(Occurrences(Frame, ClearLine \o WirePosition(E.cy, E.cx))) = 1

\* the positions right after the occurrences of s that begin before k
EndsBefore(frame, s, k) ==
  {i + Len(s) : i \in {j \in Occurrences(frame, s) : j < k}}

\* where the content of the row closed by the clear code at k begins: after
\* the separator and clear code before it, or after the hide and home codes
\* for the first row
RowStart(frame, k) ==
  LET before == {1} \cup EndsBefore(frame, CRLF, k)
        \cup EndsBefore(frame, ClearLine, k)
        \cup EndsBefore(frame, CursorHome, k)
        \cup EndsBefore(frame, HideCursor, k)
  IN  CHOOSE m \in before : \A n \in before : n <= m

\* the bytes of that row before its clear code
RowContent(frame, k) == SubSeq(frame, RowStart(frame, k), k - 1)

\* the banner text, cut to the width of the viewport
Banner(cols) ==
  LET text == WelcomeFmt \o KILO_VERSION
  IN  SubSeq(text, 1, IF Len(text) > cols THEN cols ELSE Len(text))

\* s ends with t
EndsWith(s, t) ==
  Len(t) <= Len(s) /\ SubSeq(s, Len(s) - Len(t) + 1, Len(s)) = t

\* C17: in the frame of a viewport of at least one row and one column the
\* content of no row is longer than the viewport is wide, the banner is the
\* end of the content of the row of index rows/3 and of no other row, and in a
\* viewport narrower than the banner that row's content is the banner's
\* first viewportCols characters.
C17_RowWidths ==
  FrameWritten =>
    LET ks == Occurrences(Frame, ClearLine)
        index(k) == Cardinality({j \in ks : j < k})
    IN  /\ \A k \in ks : Len(RowContent(Frame, k)) <= E.screencols
        /\ \E k \in ks : index(k) = CDiv(E.screenrows, 3)
        /\ \A k \in ks :
             EndsWith(RowContent(Frame, k), Banner(E.screencols))
               <=> index(k) = CDiv(E.screenrows, 3)
        /\ \A k \in ks :
             (index(k) = CDiv(E.screenrows, 3)
                /\ E.screencols < Len(WelcomeFmt \o KILO_VERSION)) =>
               RowContent(Frame, k) = Banner(E.screencols)

(***************************************************************************)
(* What a key may change.                                                  *)
(***************************************************************************)
\* C20: the handling of a key other than the arrows, Home, End and Ctrl-Q
\* leaves E as it was; Home, End, Left and Right change at most E.cx, Up and
\* Down at most E.cy; and once the loop runs no step changes E.screenrows,
\* E.screencols or E.orig_termios.
C20_FrameEffects ==
  [][/\ (pc = "process"
           /\ key[1] \notin {ARROW_LEFT, ARROW_RIGHT, ARROW_UP, ARROW_DOWN,
                             HOME_KEY, END_KEY, CTRL_KEY(CH_q)}) => E' = E
     /\ (pc = "process"
           /\ key[1] \in {HOME_KEY, END_KEY, ARROW_LEFT, ARROW_RIGHT}) =>
          E' = [E EXCEPT !.cx = E'.cx]
     /\ (pc = "process" /\ key[1] \in {ARROW_UP, ARROW_DOWN}) =>
          E' = [E EXCEPT !.cy = E'.cy]
     /\ Running =>
          /\ E'.screenrows = E.screenrows
          /\ E'.screencols = E.screencols
          /\ E'.orig_termios = E.orig_termios
    ]_vars

\* Page Down has been decoded with the cursor above the bottom row
C20_Witness ==
  pc = "process" /\ key = <<PAGE_DOWN>> /\ E.cy = 0 /\ E.screenrows >= 2

====
